---- MODULE Spec2Model ----
(***************************************************************************)
(* codeclip: a size-bounded, filter-aware, binary-detecting recursive file *)
(* concatenator (src/codeclip.js).                                         *)
(*                                                                         *)
(* Representation.                                                         *)
(*   - a character is a one-element string; the string "ue" stands for one *)
(*     UTF-16 code unit that takes two bytes in UTF-8 (such as U+00FC);    *)
(*   - a name (directory entry, answer, ignore-file line) is a sequence of *)
(*     characters; a path is a sequence of names;                          *)
(*   - a buffer (file content) is a sequence of runs [b |-> byte, n |->    *)
(*     count]: n consecutive bytes of value b;                             *)
(*   - the output text is a sequence of units (root header, folder header, *)
(*     file block, binary marker block); Bytes(text) is its UTF-8 length.  *)
(***************************************************************************)
EXTENDS Integers, Sequences, FiniteSets, TLC

(***************************************************************************)
(* Bounds of the model.                                                    *)
(***************************************************************************)
\* small file contents hold 0 .. MaxSmall bytes
MaxSmall == 1
\* large file contents hold MAX_SIZE - GapUnit * k bytes, k in 1 .. MaxGaps
MaxGaps == 3
GapUnit == 21
\* directories "d" are nested 0 .. MaxDepth levels deep
MaxDepth == 2
\* byte runs of the buffers given to isBinaryFile are 0 .. MaxRun long, or
\* as long as the sample
MaxRun == 7

(***************************************************************************)
(* Program constants.                                                      *)
(***************************************************************************)
MAX_SIZE == 5 * 1024 * 1024
\* Math.min(buffer.length, 8000)
SampleLimit == 8000
\* "--- Root Directory: " and " ---\n"
RootPrefixLen == 20
\* "\n--- Folder: "
FolderPrefixLen == 13
\* "\n--- File: "
FilePrefixLen == 11
\* " ---\n"
SuffixLen == 5
\* "[BINARY FILE SKIPPED]\n"
MarkerLen == 22

(***************************************************************************)
(* Strings.                                                                *)
(***************************************************************************)
RECURSIVE SumSeq(_)
SumSeq(s) == IF s = <<>> THEN 0 ELSE Head(s) + SumSeq(Tail(s))

\* Buffer.byteLength(c, 'utf8') of one character
Utf8Len(c) == IF c = "ue" THEN 2 ELSE 1

\* s.length
CharLen(name) == Len(name)

\* Buffer.byteLength(s, 'utf8')
ByteLen(name) == SumSeq([i \in 1..Len(name) |-> Utf8Len(name[i])])

LowerChar(c) ==
    CASE c = "A" -> "a" [] c = "B" -> "b" [] c = "G" -> "g" [] c = "N" -> "n"
      [] c = "P" -> "p" [] c = "X" -> "x" [] c = "Y" -> "y" [] OTHER -> c

\* String.prototype.toLowerCase
ToLowerCase(s) == [i \in 1..Len(s) |-> LowerChar(s[i])]

\* String.prototype.startsWith('.')
StartsWithDot(name) == Len(name) > 0 /\ name[1] = "."

\* path.relative(process.cwd(), path.join(dirPath, file)) as text: the
\* names joined with "/"
RelChars(rel) == SumSeq([i \in 1..Len(rel) |-> CharLen(rel[i])]) + (Len(rel) - 1)
RelBytes(rel) == SumSeq([i \in 1..Len(rel) |-> ByteLen(rel[i])]) + (Len(rel) - 1)

\* path.basename(rootDir)
Basename(dir) == IF dir = <<>> THEN <<>> ELSE dir[Len(dir)]

\* path.dirname(current)
Dirname(dir) == IF dir = <<>> THEN <<>> ELSE SubSeq(dir, 1, Len(dir) - 1)

(***************************************************************************)
(* isBinaryFile                                                            *)
(***************************************************************************)
LastDot(name) ==
    LET dots == {i \in 1..Len(name) : name[i] = "."}
    IN  IF dots = {} THEN 0 ELSE CHOOSE i \in dots : \A j \in dots : j <= i

\* path.extname of a file name: from the last "." of the name, empty when
\* there is none, when it is the name's first character, or for ".."
Extname(name) ==
    LET d == LastDot(name)
    IN  IF d <= 1 \/ name = <<".", ".">> THEN <<>>
        ELSE SubSeq(name, d, Len(name))

binaryExts == {
    <<".","e","x","e">>, <<".","d","l","l">>, <<".","s","o">>,
    <<".","d","y","l","i","b">>, <<".","c","l","a","s","s">>,
    <<".","j","a","r">>, <<".","p","y","c">>, <<".","o">>,
    <<".","o","b","j">>, <<".","j","p","g">>, <<".","j","p","e","g">>,
    <<".","p","n","g">>, <<".","g","i","f">>, <<".","b","m","p">>,
    <<".","i","c","o">>, <<".","w","e","b","p">>, <<".","p","s","d">>,
    <<".","t","i","f","f">>, <<".","m","p","3">>, <<".","w","a","v">>,
    <<".","f","l","a","c">>, <<".","a","a","c">>, <<".","o","g","g">>,
    <<".","m","p","4">>, <<".","a","v","i">>, <<".","m","o","v">>,
    <<".","m","k","v">>, <<".","f","l","v">>, <<".","p","d","f">>,
    <<".","d","o","c">>, <<".","d","o","c","x">>, <<".","x","l","s">>,
    <<".","x","l","s","x">>, <<".","p","p","t">>, <<".","p","p","t","x">>,
    <<".","o","d","t">>, <<".","z","i","p">>, <<".","r","a","r">>,
    <<".","7","z">>, <<".","t","a","r">>, <<".","g","z">>,
    <<".","b","z","2">>, <<".","x","z">>, <<".","t","g","z">>,
    <<".","d","b">>, <<".","s","q","l","i","t","e">>, <<".","m","d","b">> }

\* buffer.length
BufLen(buffer) == SumSeq([i \in 1..Len(buffer) |-> buffer[i].n])

\* buffer.includes(0)
IncludesZero(buffer) == \E i \in 1..Len(buffer) : buffer[i].b = 0 /\ buffer[i].n > 0

Min(a, b) == IF a < b THEN a ELSE b

IsControlNoTab(byte) == byte < 32 /\ byte # 10 /\ byte # 13

\* byte < 32 && byte !== 9 && byte !== 10 && byte !== 13
IsControl(byte) == byte < 32 /\ byte # 9 /\ byte # 10 /\ byte # 13

\* the loop over i < sampleSize, one run of equal bytes at a time:
\* nonPrintable after the runs from index k on, `left` bytes of the sample
\* remaining
RECURSIVE CountNonPrintable(_, _, _)
CountNonPrintable(buffer, k, left) ==
    IF k > Len(buffer) \/ left <= 0 THEN 0
    ELSE LET take == Min(buffer[k].n, left)
         IN  (IF IsControl(buffer[k].b) THEN take ELSE 0)
             + CountNonPrintable(buffer, k + 1, left - take)

SampleSize(buffer) == Min(BufLen(buffer), SampleLimit)

RatioAtLeast(nonPrintable, sampleSize) ==
    sampleSize > 0 /\ 10 * nonPrintable >= 3 * sampleSize

\* nonPrintable / sampleSize > 0.3; 0 / 0 is NaN, and NaN > 0.3 is false.
\* For sampleSize <= 8000 the double quotient exceeds the double 0.3
\* exactly when 10 * nonPrintable > 3 * sampleSize.
RatioExceeds(nonPrintable, sampleSize) ==
    sampleSize > 0 /\ 10 * nonPrintable > 3 * sampleSize

isBinaryFile(buffer, fileName) ==
    IF ToLowerCase(Extname(fileName)) \in binaryExts THEN TRUE
    ELSE IF IncludesZero(buffer) THEN TRUE
    ELSE RatioExceeds(CountNonPrintable(buffer, 1, SampleSize(buffer)),
                      SampleSize(buffer))

\* buffer.toString('utf8') then Buffer.byteLength(content, 'utf8'): every
\* byte 255 is an invalid sequence and decodes to U+FFFD (three bytes), the
\* other bytes of the model are ASCII and keep their length
DecodedBytes(buffer) ==
    SumSeq([i \in 1..Len(buffer) |->
                buffer[i].n * (IF buffer[i].b = 255 THEN 3 ELSE 1)])

(***************************************************************************)
(* The ignore rule set (package `ignore`): ig.add(text), ig.ignores(path). *)
(* The model holds the patterns the program's inputs use: a bare name      *)
(* ("b"), matching an entry of that name at any depth, and a directory-    *)
(* only name ("build/"), matching only directories of that name.  The      *)
(* walker passes every path without a trailing "/", so ignores() takes the *)
(* path itself for a file and its proper prefixes for directories.         *)
(***************************************************************************)
ParseRule(line) ==
    IF Len(line) > 0 /\ line[Len(line)] = "/"
    THEN [name |-> SubSeq(line, 1, Len(line) - 1), dirOnly |-> TRUE]
    ELSE [name |-> line, dirOnly |-> FALSE]

\* ig.add(rules): one rule per line
AddRules(rules, lines) == rules \o [i \in 1..Len(lines) |-> ParseRule(lines[i])]

\* ig.ignores(relativePath)
Ignores(rules, rel) ==
    \E i \in 1..Len(rel) : \E r \in 1..Len(rules) :
        /\ rules[r].name = rel[i]
        /\ rules[r].dirOnly => i < Len(rel)

(***************************************************************************)
(* Output text.                                                            *)
(***************************************************************************)
RootUnit(dir) == [t |-> "Root", rel |-> <<Basename(dir)>>, n |-> 0]
FolderUnit(rel) == [t |-> "Folder", rel |-> rel, n |-> 0]
FileUnit(rel, n) == [t |-> "File", rel |-> rel, n |-> n]
BinaryUnit(rel) == [t |-> "Binary", rel |-> rel, n |-> 0]

\* folderHeader.length: UTF-16 code units
FolderHeaderChars(rel) == FolderPrefixLen + RelChars(rel) + SuffixLen
\* Buffer.byteLength(folderHeader, 'utf8')
FolderHeaderBytes(rel) == FolderPrefixLen + RelBytes(rel) + SuffixLen
\* Buffer.byteLength(fileHeader, 'utf8')
FileHeaderBytes(rel) == FilePrefixLen + RelBytes(rel) + SuffixLen
\* Buffer.byteLength of the root header
RootHeaderBytes(dir) == RootPrefixLen + ByteLen(Basename(dir)) + SuffixLen

UnitBytes(u) ==
    CASE u.t = "Root"   -> RootPrefixLen + ByteLen(u.rel[1]) + SuffixLen
      [] u.t = "Folder" -> FolderHeaderBytes(u.rel)
      [] u.t = "File"   -> FileHeaderBytes(u.rel) + u.n
      [] u.t = "Binary" -> FileHeaderBytes(u.rel) + MarkerLen

\* UTF-8 byte length of a text
Bytes(text) == SumSeq([i \in 1..Len(text) |-> UnitBytes(text[i])])

(***************************************************************************)
(* The file system the program runs on.                                    *)
(***************************************************************************)
NA == <<"a">>
NB == <<"b">>
NC == <<"c">>
ND == <<"d">>
NE == <<"e">>
NF == <<"f">>
NI == <<"i">>
NK == <<"k">>
NL == <<"l">>
NM == <<"m">>
NN == <<"n">>
NO == <<"o">>
NP == <<"p">>
NQ == <<"q">>
NR == <<"r">>
NS == <<"s">>
NT == <<"t">>
NU == <<"u">>
NW == <<"w">>
NZ == <<"z">>
NUe == <<"ue">>
NBuild == <<"b", "u", "i", "l", "d">>
NPng == <<"x", ".", "P", "N", "G">>
NEnv == <<".", "e", "n", "v">>
NGitignore == <<".", "g", "i", "t", "i", "g", "n", "o", "r", "e">>

NoFile == [present |-> FALSE, lines |-> <<>>]
IgnoreFile(lines) == [present |-> TRUE, lines |-> lines]

Text(n) == <<[b |-> 65, n |-> n]>>

\* the bytes of an ignore-file: its lines, each ended by a newline
LinesData(lines) ==
    Text(SumSeq([i \in 1..Len(lines) |-> ByteLen(lines[i]) + 1]))

FileNode(data) ==
    [kind |-> "file", readOk |-> TRUE, data |-> data, files |-> <<>>, lines |-> <<>>]
IgnoreFileNode(lines) ==
    [kind |-> "file", readOk |-> TRUE, data |-> LinesData(lines), files |-> <<>>,
     lines |-> lines]
UnreadableFileNode ==
    [kind |-> "file", readOk |-> FALSE, data |-> <<>>, files |-> <<>>, lines |-> <<>>]
DirNode(files) ==
    [kind |-> "dir", readOk |-> TRUE, data |-> <<>>, files |-> files, lines |-> <<>>]
UnreadableDirNode ==
    [kind |-> "dir", readOk |-> FALSE, data |-> <<>>, files |-> <<>>, lines |-> <<>>]
OtherNode(kind) ==
    [kind |-> kind, readOk |-> FALSE, data |-> <<>>, files |-> <<>>, lines |-> <<>>]

SmallSizes == 0..MaxSmall
BigSizes == {MAX_SIZE - GapUnit * k : k \in 1..MaxGaps}
Sizes == SmallSizes \cup BigSizes

Rotate(s, r) == [i \in 1..Len(s) |-> s[((i - 1 + r) % Len(s)) + 1]]

DPath(j) == [i \in 1..j |-> ND]

BuildSlash == <<"b", "u", "i", "l", "d", "/">>

IgnoreFiles == {NoFile, IgnoreFile(<<BuildSlash>>), IgnoreFile(<<ND, NB>>)}

WithIgnoreFile(files, gi) == IF gi = NoFile THEN files ELSE files \o <<NGitignore>>

\* a, d/.../d/f, d/t (one zero byte), build/o and b, listed in a rotated order
CapTree(aSize, depth, fSize, rot, gi) ==
    LET top  == WithIgnoreFile(Rotate(<<NA, ND, NBuild, NB>>, rot), gi)
        dom  == {<<>>, <<NA>>, <<NB>>, <<NBuild>>, <<NBuild, NO>>, <<ND>>}
                \cup {DPath(j) : j \in 1..depth}
                \cup (IF depth > 0 THEN {DPath(depth) \o <<NF>>, <<ND, NT>>} ELSE {})
                \cup (IF gi = NoFile THEN {} ELSE {<<NGitignore>>})
    IN  [p \in dom |->
            CASE p = <<>> -> DirNode(top)
              [] p = <<NA>> -> FileNode(Text(aSize))
              [] p = <<NB>> -> FileNode(Text(MaxSmall))
              [] p = <<NBuild>> -> DirNode(<<NO>>)
              [] p = <<NBuild, NO>> -> FileNode(Text(0))
              [] p = <<NGitignore>> -> IgnoreFileNode(gi.lines)
              [] p = <<ND, NT>> -> FileNode(<<[b |-> 0, n |-> 1]>>)
              [] p = DPath(depth) \o <<NF>> -> FileNode(Text(fSize))
              [] OTHER ->
                    IF depth = 0 THEN DirNode(<<>>)
                    ELSE DirNode((IF Len(p) < depth THEN <<ND>> ELSE <<NF>>)
                                 \o (IF Len(p) = 1 THEN <<NT>> ELSE <<>>))]

\* one entry of every kind, and directories named build at several depths
ZooTree(gi) ==
    LET top == WithIgnoreFile(
                  <<NEnv, NPng, NN, NS, NU, NL, NO, NC, NI, NUe, NR, NE, NZ, NW>>, gi)
    IN  (<<>> :> DirNode(top))
        @@ (<<NEnv>> :> FileNode(Text(MaxSmall)))
        @@ (<<NPng>> :> FileNode(Text(MaxSmall)))
        @@ (<<NN>> :> FileNode(<<[b |-> 65, n |-> 1], [b |-> 0, n |-> 1]>>))
        @@ (<<NS>> :> OtherNode("symlink"))
        @@ (<<NU>> :> UnreadableFileNode)
        @@ (<<NO>> :> OtherNode("fifo"))
        @@ (<<NC>> :> FileNode(<<[b |-> 7, n |-> 2], [b |-> 65, n |-> 1]>>))
        @@ (<<NI>> :> FileNode(<<[b |-> 255, n |-> 2], [b |-> 10, n |-> 1]>>))
        @@ (<<NUe>> :> DirNode(<<NUe>>))
        @@ (<<NUe, NUe>> :> FileNode(Text(MaxSmall)))
        @@ (<<NR>> :> UnreadableDirNode)
        @@ (<<NE>> :> DirNode(<<NEnv, NS>>))
        @@ (<<NE, NEnv>> :> FileNode(Text(0)))
        @@ (<<NE, NS>> :> OtherNode("symlink"))
        @@ (<<NZ>> :> DirNode(<<NBuild, NK>>))
        @@ (<<NZ, NBuild>> :> DirNode(<<NO, NM>>))
        @@ (<<NZ, NBuild, NO>> :> FileNode(Text(0)))
        @@ (<<NZ, NBuild, NM>> :> DirNode(<<NB>>))
        @@ (<<NZ, NBuild, NM, NB>> :> FileNode(Text(MaxSmall)))
        @@ (<<NZ, NK>> :> FileNode(Text(0)))
        @@ (<<NW>> :> DirNode(<<NBuild>>))
        @@ (<<NW, NBuild>> :> FileNode(Text(MaxSmall)))
        @@ (IF gi = NoFile THEN <<>> ELSE (<<NGitignore>> :> IgnoreFileNode(gi.lines)))

\* one text file
SingleTree(aSize) == (<<>> :> DirNode(<<NA>>)) @@ (<<NA>> :> FileNode(Text(aSize)))

Trees ==
    {CapTree(a, k, f, r, gi) :
        a \in Sizes, k \in 0..MaxDepth, f \in Sizes, r \in 0..3, gi \in IgnoreFiles}
    \cup {ZooTree(gi) : gi \in IgnoreFiles}
    \cup {SingleTree(a) : a \in Sizes \cup {6 * 1024 * 1024}}

\* the invocation directory, the '.git' entry of it and of each ancestor
\* ("dir", "file", "none", or "staterr": statSync throws), and the
\* ignore-files of its proper ancestors
Places == {
    [cwd |-> <<NP>>, git |-> (<<>> :> "none") @@ (<<NP>> :> "dir"),
     above |-> (<<>> :> NoFile)],
    [cwd |-> <<NP, NQ>>,
     git |-> (<<>> :> "none") @@ (<<NP>> :> "dir") @@ (<<NP, NQ>> :> "staterr"),
     above |-> (<<>> :> NoFile) @@ (<<NP>> :> IgnoreFile(<<BuildSlash>>))],
    [cwd |-> <<NP>>, git |-> (<<>> :> "none") @@ (<<NP>> :> "file"),
     above |-> (<<>> :> NoFile)],
    [cwd |-> <<NP>>, git |-> (<<>> :> "dir") @@ (<<NP>> :> "none"),
     above |-> (<<>> :> NoFile)],
    [cwd |-> <<>>, git |-> (<<>> :> "dir"), above |-> <<>>] }

Answers == {<<"y">>, <<"Y">>, <<"n">>, <<"y", "e", "s">>, <<>>}

(***************************************************************************)
(* State.                                                                  *)
(***************************************************************************)
VARIABLES
    cwd,          \* process.cwd()
    git,          \* the '.git' entry of cwd and of each ancestor
    above,        \* the ignore-files of the proper ancestors of cwd
    tree,         \* the entries below cwd, by relative path
    pc,           \* where main is
    current,      \* isGitRepo: the directory examined
    gitRoot,      \* main: [found, dir], the result of isGitRepo
    answer,       \* main: the operator's answer
    ig,           \* main: [loaded, rules]
    currentSize,
    limitReached,
    stack,        \* the frames of processDirectory, the running one last
    ret,          \* [set, text]: the value a finished processDirectory returns
    finalOutput,
    clipboard,    \* [written, text]: what the clipboard sink received
    report,       \* the status line printed
    exitCode,
    calls,        \* the number of top-level processDirectory calls so far
    firstOutput,  \* what the first top-level processDirectory call returned
    arg,          \* isBinaryFile under test: [buffer, name]
    result        \* isBinaryFile under test: [set, binary]

env == <<cwd, git, above, tree>>
test == <<arg, result>>
vars == <<cwd, git, above, tree, pc, current, gitRoot, answer, ig, currentSize,
          limitReached, stack, ret, finalOutput, clipboard, report, exitCode,
          calls, firstOutput, arg, result>>

NoArg == [buffer |-> <<>>, name |-> <<>>]
NoResult == [set |-> FALSE, binary |-> FALSE]
NoRet == [set |-> FALSE, text |-> <<>>]

InitMain ==
    /\ pc = "isGitRepo"
    /\ current = cwd
    /\ gitRoot = [found |-> FALSE, dir |-> <<>>]
    /\ answer = <<>>
    /\ ig = [loaded |-> FALSE, rules |-> <<>>]
    /\ currentSize = 0
    /\ limitReached = FALSE
    /\ stack = <<>>
    /\ ret = NoRet
    /\ finalOutput = <<>>
    /\ clipboard = [written |-> FALSE, text |-> <<>>]
    /\ report = "none"
    /\ exitCode = 0
    /\ calls = 0
    /\ firstOutput = <<>>

Init ==
    /\ \E place \in Places :
          /\ cwd = place.cwd
          /\ git = place.git
          /\ above = place.above
    /\ tree \in Trees
    /\ InitMain
    /\ arg = NoArg
    /\ result = NoResult

(***************************************************************************)
(* isGitRepo, one loop iteration per step.                                 *)
(***************************************************************************)
\* path.parse(current).root
FsRoot == <<>>

\* fs.existsSync(gitPath) && fs.statSync(gitPath).isDirectory(), a throw of
\* statSync caught
HasGitDir(dir) == git[dir] = "dir"

GitRepoFound ==
    /\ pc = "isGitRepo"
    /\ current # FsRoot
    /\ HasGitDir(current)
    /\ gitRoot' = [found |-> TRUE, dir |-> current]
    /\ pc' = "load"
    /\ UNCHANGED <<env, test, current, answer, ig, currentSize, limitReached, stack,
                   ret, finalOutput, clipboard, report, exitCode, calls, firstOutput>>

GitRepoUp ==
    /\ pc = "isGitRepo"
    /\ current # FsRoot
    /\ ~HasGitDir(current)
    /\ current' = Dirname(current)
    /\ UNCHANGED <<env, test, pc, gitRoot, answer, ig, currentSize, limitReached,
                   stack, ret, finalOutput, clipboard, report, exitCode, calls,
                   firstOutput>>

GitRepoNone ==
    /\ pc = "isGitRepo"
    /\ current = FsRoot
    /\ gitRoot' = [found |-> FALSE, dir |-> <<>>]
    /\ pc' = "prompt"
    /\ UNCHANGED <<env, test, current, answer, ig, currentSize, limitReached, stack,
                   ret, finalOutput, clipboard, report, exitCode, calls, firstOutput>>

(***************************************************************************)
(* main                                                                    *)
(***************************************************************************)
DeclinedCaseSensitive(a) == a # <<"y">>

\* answer.toLowerCase() !== 'y'
Declined(a) == ToLowerCase(a) # <<"y">>

AnswerNo ==
    /\ pc = "prompt"
    /\ \E a \in Answers :
          /\ Declined(a)
          /\ answer' = a
    /\ report' = "cancelled"
    /\ pc' = "cancelled"
    /\ UNCHANGED <<env, test, current, gitRoot, ig, currentSize, limitReached, stack,
                   ret, finalOutput, clipboard, exitCode, calls, firstOutput>>

AnswerYes ==
    /\ pc = "prompt"
    /\ \E a \in Answers :
          /\ ~Declined(a)
          /\ answer' = a
    /\ pc' = "load"
    /\ UNCHANGED <<env, test, current, gitRoot, ig, currentSize, limitReached, stack,
                   ret, finalOutput, clipboard, report, exitCode, calls, firstOutput>>

\* the ignore-file of a directory from cwd upward
IgnoreFileAt(dir) ==
    IF dir = cwd
    THEN IF <<NGitignore>> \in DOMAIN tree /\ tree[<<NGitignore>>].kind = "file"
            /\ tree[<<NGitignore>>].readOk
         THEN IgnoreFile(tree[<<NGitignore>>].lines)
         ELSE NoFile
    ELSE above[dir]

\* current.startsWith(rootDir), on whole names
StartsWith(dir, prefix) ==
    Len(prefix) <= Len(dir) /\ SubSeq(dir, 1, Len(prefix)) = prefix

\* the loop of loadGitIgnoreRules from `dir` up to rootDir
RECURSIVE LoadFrom(_, _, _)
LoadFrom(rules, dir, rootDir) ==
    IF ~StartsWith(dir, rootDir) THEN rules
    ELSE LET f     == IgnoreFileAt(dir)
             added == IF f.present THEN AddRules(rules, f.lines) ELSE rules
         IN  IF dir = rootDir THEN added
             ELSE LoadFrom(added, Dirname(dir), rootDir)

loadGitIgnoreRules(rootDir) == LoadFrom(<<>>, cwd, rootDir)

LoadRules ==
    /\ pc = "load"
    /\ ig' = [loaded |-> TRUE,
              rules |-> loadGitIgnoreRules(IF gitRoot.found THEN gitRoot.dir ELSE cwd)]
    /\ pc' = "header"
    /\ UNCHANGED <<env, test, current, gitRoot, answer, currentSize, limitReached,
                   stack, ret, finalOutput, clipboard, report, exitCode, calls,
                   firstOutput>>

(***************************************************************************)
(* processDirectory, one loop iteration (or one return) per step.          *)
(***************************************************************************)
Walking == pc \in {"walk", "again"}

Gone == OtherNode("gone")

\* fs.lstatSync(filePath); "gone" when it throws
Lstat(rel) == IF rel \in DOMAIN tree THEN tree[rel] ELSE Gone

\* the frame of the running call
Top == stack[Len(stack)]
file == Top.files[Top.i]
relativePath == Top.dir \o <<file>>
stats == Lstat(relativePath)

\* currentSize + size > MAX_SIZE
Overflows(size, add) == size + add > MAX_SIZE

\* file.startsWith('.') && file !== '.gitignore'
IsSkippedDotfile(name) == StartsWithDot(name) /\ name # NGitignore

\* at the top of the loop body with an entry left
AtEntry == Walking /\ ~ret.set /\ stack # <<>> /\ Top.i <= Len(Top.files)

\* past `if (limitReached) return output`
Visiting == AtEntry /\ ~limitReached

IsIgnoredByName == Ignores(ig.rules, <<file>>)

\* ig.ignores(relativePath)
IsIgnored == Ignores(ig.rules, relativePath)

\* past the dotfile, lstat, symlink and ignore checks
Accepted ==
    /\ Visiting
    /\ ~IsSkippedDotfile(file)
    /\ stats.kind \notin {"gone", "symlink"}
    /\ ~IsIgnored

\* continue: the next entry, with the frame's output
Continue(output) ==
    stack' = [stack EXCEPT ![Len(stack)] = [@ EXCEPT !.i = @ + 1, !.output = output]]

\* return output
Return(output) ==
    /\ stack' = SubSeq(stack, 1, Len(stack) - 1)
    /\ ret' = [set |-> TRUE, text |-> output]

\* processDirectory(dirPath, ig): a frame over the listing, or '' at once
\* when readdirSync throws
Call(stk, rel) ==
    IF Lstat(rel).kind = "dir" /\ Lstat(rel).readOk
    THEN /\ stack' = Append(stk, [dir |-> rel, files |-> Lstat(rel).files, i |-> 1,
                                  output |-> <<>>])
         /\ ret' = NoRet
    ELSE /\ stack' = stk
         /\ ret' = [set |-> TRUE, text |-> <<>>]

\* the loop ends: return output
LoopEnd ==
    /\ Walking /\ ~ret.set /\ stack # <<>>
    /\ Top.i > Len(Top.files)
    /\ Return(Top.output)
    /\ UNCHANGED <<env, test, pc, current, gitRoot, answer, ig, currentSize,
                   limitReached, finalOutput, clipboard, report, exitCode, calls,
                   firstOutput>>

\* if (limitReached) return output
LimitReturn ==
    /\ AtEntry
    /\ limitReached
    /\ Return(Top.output)
    /\ UNCHANGED <<env, test, pc, current, gitRoot, answer, ig, currentSize,
                   limitReached, finalOutput, clipboard, report, exitCode, calls,
                   firstOutput>>

SkipDotfile ==
    /\ Visiting
    /\ IsSkippedDotfile(file)
    /\ Continue(Top.output)
    /\ UNCHANGED <<env, test, pc, current, gitRoot, answer, ig, currentSize,
                   limitReached, ret, finalOutput, clipboard, report, exitCode, calls,
                   firstOutput>>

SkipLstatFailure ==
    /\ Visiting
    /\ ~IsSkippedDotfile(file)
    /\ stats.kind = "gone"
    /\ Continue(Top.output)
    /\ UNCHANGED <<env, test, pc, current, gitRoot, answer, ig, currentSize,
                   limitReached, ret, finalOutput, clipboard, report, exitCode, calls,
                   firstOutput>>

SkipSymlink ==
    /\ Visiting
    /\ ~IsSkippedDotfile(file)
    /\ stats.kind = "symlink"
    /\ Continue(Top.output)
    /\ UNCHANGED <<env, test, pc, current, gitRoot, answer, ig, currentSize,
                   limitReached, ret, finalOutput, clipboard, report, exitCode, calls,
                   firstOutput>>

SkipIgnored ==
    /\ Visiting
    /\ ~IsSkippedDotfile(file)
    /\ stats.kind \notin {"gone", "symlink"}
    /\ IsIgnored
    /\ Continue(Top.output)
    /\ UNCHANGED <<env, test, pc, current, gitRoot, answer, ig, currentSize,
                   limitReached, ret, finalOutput, clipboard, report, exitCode, calls,
                   firstOutput>>

\* neither a directory nor a regular file
SkipOther ==
    /\ Accepted
    /\ stats.kind \notin {"dir", "file"}
    /\ Continue(Top.output)
    /\ UNCHANGED <<env, test, pc, current, gitRoot, answer, ig, currentSize,
                   limitReached, ret, finalOutput, clipboard, report, exitCode, calls,
                   firstOutput>>

\* a directory whose header does not fit
DirOverflow ==
    /\ Accepted
    /\ stats.kind = "dir"
    /\ Overflows(currentSize, FolderHeaderChars(relativePath))
    /\ limitReached' = TRUE
    /\ Return(Top.output)
    /\ UNCHANGED <<env, test, pc, current, gitRoot, answer, ig, currentSize,
                   finalOutput, clipboard, report, exitCode, calls, firstOutput>>

\* processDirectory(filePath, ig)
DirRecurse ==
    /\ Accepted
    /\ stats.kind = "dir"
    /\ ~Overflows(currentSize, FolderHeaderChars(relativePath))
    /\ Call(stack, relativePath)
    /\ UNCHANGED <<env, test, pc, current, gitRoot, answer, ig, currentSize,
                   limitReached, finalOutput, clipboard, report, exitCode, calls,
                   firstOutput>>

\* if (folderOutput) { output += folderHeader + folderOutput; currentSize += ... }
AfterRecursion ==
    /\ Walking /\ ret.set /\ stack # <<>>
    /\ IF ret.text # <<>>
       THEN /\ Continue(Top.output \o <<FolderUnit(relativePath)>> \o ret.text)
            /\ currentSize' = currentSize + FolderHeaderBytes(relativePath)
       ELSE /\ Continue(Top.output)
            /\ currentSize' = currentSize
    /\ ret' = NoRet
    /\ UNCHANGED <<env, test, pc, current, gitRoot, answer, ig, limitReached,
                   finalOutput, clipboard, report, exitCode, calls, firstOutput>>

\* a file whose header alone does not fit
FileHeaderOverflow ==
    /\ Accepted
    /\ stats.kind = "file"
    /\ Overflows(currentSize, FileHeaderBytes(relativePath))
    /\ limitReached' = TRUE
    /\ Return(Top.output)
    /\ UNCHANGED <<env, test, pc, current, gitRoot, answer, ig, currentSize,
                   finalOutput, clipboard, report, exitCode, calls, firstOutput>>

\* past the header check
Readable ==
    /\ Accepted
    /\ stats.kind = "file"
    /\ ~Overflows(currentSize, FileHeaderBytes(relativePath))

\* readFileSync throws
FileUnreadable ==
    /\ Readable
    /\ ~stats.readOk
    /\ Continue(Top.output)
    /\ UNCHANGED <<env, test, pc, current, gitRoot, answer, ig, currentSize,
                   limitReached, ret, finalOutput, clipboard, report, exitCode, calls,
                   firstOutput>>

BinaryOverflow ==
    /\ Readable
    /\ stats.readOk
    /\ isBinaryFile(stats.data, file)
    /\ Overflows(currentSize, FileHeaderBytes(relativePath) + MarkerLen)
    /\ limitReached' = TRUE
    /\ Return(Top.output)
    /\ UNCHANGED <<env, test, pc, current, gitRoot, answer, ig, currentSize,
                   finalOutput, clipboard, report, exitCode, calls, firstOutput>>

BinaryAppend ==
    /\ Readable
    /\ stats.readOk
    /\ isBinaryFile(stats.data, file)
    /\ ~Overflows(currentSize, FileHeaderBytes(relativePath) + MarkerLen)
    /\ Continue(Append(Top.output, BinaryUnit(relativePath)))
    /\ currentSize' = currentSize + FileHeaderBytes(relativePath) + MarkerLen
    /\ UNCHANGED <<env, test, pc, current, gitRoot, answer, ig, limitReached, ret,
                   finalOutput, clipboard, report, exitCode, calls, firstOutput>>

\* headerSize + contentSize
TotalSize(rel, buffer) == FileHeaderBytes(rel) + DecodedBytes(buffer)

\* the text branch returning without setting the flag
TextOverflowUnflagged ==
    /\ Readable
    /\ stats.readOk
    /\ ~isBinaryFile(stats.data, file)
    /\ Overflows(currentSize, TotalSize(relativePath, stats.data))
    /\ Return(Top.output)
    /\ UNCHANGED <<env, test, pc, current, gitRoot, answer, ig, currentSize,
                   limitReached, finalOutput, clipboard, report, exitCode, calls,
                   firstOutput>>

\* a text file that does not fit
TextOverflow ==
    /\ Readable
    /\ stats.readOk
    /\ ~isBinaryFile(stats.data, file)
    /\ Overflows(currentSize, TotalSize(relativePath, stats.data))
    /\ limitReached' = TRUE
    /\ Return(Top.output)
    /\ UNCHANGED <<env, test, pc, current, gitRoot, answer, ig, currentSize,
                   finalOutput, clipboard, report, exitCode, calls, firstOutput>>

TextAppend ==
    /\ Readable
    /\ stats.readOk
    /\ ~isBinaryFile(stats.data, file)
    /\ ~Overflows(currentSize, TotalSize(relativePath, stats.data))
    /\ Continue(Append(Top.output, FileUnit(relativePath, DecodedBytes(stats.data))))
    /\ currentSize' = currentSize + TotalSize(relativePath, stats.data)
    /\ UNCHANGED <<env, test, pc, current, gitRoot, answer, ig, limitReached, ret,
                   finalOutput, clipboard, report, exitCode, calls, firstOutput>>

(***************************************************************************)
(* main, from the root header on.                                          *)
(***************************************************************************)
\* finalOutput = root header; currentSize += its bytes; processDirectory(rootDir)
RootHeader ==
    /\ pc = "header"
    /\ finalOutput' = <<RootUnit(cwd)>>
    /\ currentSize' = currentSize + RootHeaderBytes(cwd)
    /\ Call(<<>>, <<>>)
    /\ calls' = 1
    /\ pc' = "walk"
    /\ UNCHANGED <<env, test, current, gitRoot, answer, ig, limitReached, clipboard,
                   report, exitCode, firstOutput>>

\* finalOutput += the walker's result
MainAfterWalk ==
    /\ pc = "walk" /\ ret.set /\ stack = <<>>
    /\ finalOutput' = finalOutput \o ret.text
    /\ firstOutput' = ret.text
    /\ ret' = NoRet
    /\ pc' = "write"
    /\ UNCHANGED <<env, test, current, gitRoot, answer, ig, currentSize, limitReached,
                   stack, clipboard, report, exitCode, calls>>

\* clipboardy.write resolves
ClipboardWritten ==
    /\ pc = "write"
    /\ clipboard' = [written |-> TRUE, text |-> finalOutput]
    /\ report' = IF limitReached THEN "truncated" ELSE "copied"
    /\ pc' = "done"
    /\ UNCHANGED <<env, test, current, gitRoot, answer, ig, currentSize, limitReached,
                   stack, ret, finalOutput, exitCode, calls, firstOutput>>

\* clipboardy.write rejects
ClipboardFailed ==
    /\ pc = "write"
    /\ report' = "failed"
    /\ pc' = "done"
    /\ UNCHANGED <<env, test, current, gitRoot, answer, ig, currentSize, limitReached,
                   stack, ret, finalOutput, clipboard, exitCode, calls, firstOutput>>

Next ==
    \/ GitRepoFound \/ GitRepoUp \/ GitRepoNone
    \/ AnswerNo \/ AnswerYes
    \/ LoadRules
    \/ RootHeader
    \/ LoopEnd \/ LimitReturn
    \/ SkipDotfile \/ SkipLstatFailure \/ SkipSymlink \/ SkipIgnored \/ SkipOther
    \/ DirOverflow \/ DirRecurse \/ AfterRecursion
    \/ FileHeaderOverflow \/ FileUnreadable
    \/ BinaryOverflow \/ BinaryAppend \/ TextOverflow \/ TextAppend
    \/ MainAfterWalk
    \/ ClipboardWritten \/ ClipboardFailed

Spec == Init /\ [][Next]_vars

(***************************************************************************)
(* What the walk is expected to emit, read off the tree.                   *)
(***************************************************************************)
IsProperPrefix(p, q) == Len(p) < Len(q) /\ SubSeq(q, 1, Len(p)) = p

\* every directory on the way to rel is listed, read and descended into, and
\* rel itself gets past the dotfile, lstat, symlink and ignore checks
Reached(rel) ==
    \A i \in 1..Len(rel) :
        LET q == SubSeq(rel, 1, i)
        IN  /\ ~(rel[i][1] = "." /\ rel[i] # NGitignore)
            /\ q \in DOMAIN tree
            /\ tree[q].kind # "symlink"
            /\ ~Ignores(ig.rules, q)
            /\ i < Len(rel) => tree[q].kind = "dir" /\ tree[q].readOk

EligibleFile(rel) ==
    rel \in DOMAIN tree /\ Reached(rel) /\ tree[rel].kind = "file" /\ tree[rel].readOk

EligibleFiles == {rel \in DOMAIN tree : EligibleFile(rel)}

\* the directories with non-empty output after filtering
NonEmptyDirs ==
    {rel \in DOMAIN tree :
        /\ rel # <<>>
        /\ tree[rel].kind = "dir"
        /\ \E f \in EligibleFiles : IsProperPrefix(rel, f)}

BlockBytes(rel) ==
    IF isBinaryFile(tree[rel].data, rel[Len(rel)])
    THEN FileHeaderBytes(rel) + MarkerLen
    ELSE FileHeaderBytes(rel) + DecodedBytes(tree[rel].data)

\* the sum of f over S
RECURSIVE SumOver(_, _)
SumOver(S, f) ==
    IF S = {} THEN 0
    ELSE LET x == CHOOSE y \in S : TRUE IN f[x] + SumOver(S \ {x}, f)

\* root header, folder headers, file headers, file contents, binary markers
EligibleBytes ==
    RootHeaderBytes(cwd)
    + SumOver(EligibleFiles, [rel \in EligibleFiles |-> BlockBytes(rel)])
    + SumOver(NonEmptyDirs, [rel \in NonEmptyDirs |-> FolderHeaderBytes(rel)])

Count(text, t, rel) ==
    Cardinality({i \in 1..Len(text) : text[i].t \in t /\ text[i].rel = rel})

\* the folder header at index i is followed at once by all the units of
\* its subtree
HeaderPrecedesSubtree(text, i) ==
    LET below == {j \in 1..Len(text) :
                     text[j].t # "Root" /\ IsProperPrefix(text[i].rel, text[j].rel)}
    IN  below = (i + 1)..(i + Cardinality(below))

\* the text main hands to the clipboard sink is complete
Walked == pc \in {"write", "done"}

\* C1: for a tree whose eligible output is below the cap, the text has
\* exactly one block per eligible file, exactly one folder header per
\* directory with non-empty filtered output and none for the others, and
\* every folder header immediately precedes its subtree's text
C1_CompleteBelowCap ==
    (Walked /\ EligibleBytes < MAX_SIZE) =>
        /\ \A rel \in DOMAIN tree :
              /\ Count(finalOutput, {"File", "Binary"}, rel)
                    = IF rel \in EligibleFiles THEN 1 ELSE 0
              /\ Count(finalOutput, {"Folder"}, rel)
                    = IF rel \in NonEmptyDirs THEN 1 ELSE 0
        /\ \A i \in 1..Len(finalOutput) :
              /\ i > 1 => finalOutput[i].rel \in DOMAIN tree
              /\ finalOutput[i].t = "Folder" => HeaderPrecedesSubtree(finalOutput, i)

\* C2: the text passed to the clipboard sink is at most MAX_SIZE bytes
C2_ClipboardWithinCap ==
    clipboard.written => Bytes(clipboard.text) <= MAX_SIZE

\* C3: currentSize never decreases, and a unit is only ever added to a
\* currentSize that is within the cap, so that the excess over MAX_SIZE is
\* at most the one unit added last
C3_MonotoneOneUnit ==
    [][/\ currentSize' >= currentSize
       /\ currentSize' > currentSize => currentSize <= MAX_SIZE]_vars

\* every text buffer alive: the frames' outputs, a value being returned and
\* finalOutput
BufferedBytes ==
    SumSeq([i \in 1..Len(stack) |-> Bytes(stack[i].output)])
    + Bytes(ret.text) + Bytes(finalOutput)

\* C4: once limitReached is true it stays true, currentSize does not change
\* and no byte is appended to any output buffer
C4_LimitFreezes ==
    [][(Walking /\ limitReached) =>
          /\ limitReached'
          /\ currentSize' = currentSize
          /\ BufferedBytes' = BufferedBytes]_vars

\* a regular file is reached whose header, header and marker, or header and
\* content would take currentSize above MAX_SIZE
OverflowingFile ==
    /\ Accepted
    /\ stats.kind = "file"
    /\ \/ currentSize + FileHeaderBytes(relativePath) > MAX_SIZE
       \/ /\ stats.readOk
          /\ currentSize + BlockBytes(relativePath) > MAX_SIZE

\* nothing of the file is appended, the flag is set and the output so far is
\* returned as it is
RejectedWhole ==
    [][OverflowingFile =>
          /\ limitReached'
          /\ ret' = [set |-> TRUE, text |-> Top.output]
          /\ currentSize' = currentSize
          /\ BufferedBytes' = BufferedBytes]_vars

\* a tree of one text file larger than the cap yields the root header only
OversizedAlone ==
    (Walked /\ tree = SingleTree(6 * 1024 * 1024)) =>
        limitReached /\ finalOutput = <<RootUnit(cwd)>>

\* C5 as stated: an overflowing file is rejected whole, and every run that
\* hit the cap reports truncation
C5_AlwaysReportsTruncation ==
    /\ RejectedWhole
    /\ [](OversizedAlone /\ ((pc = "done" /\ limitReached) => report = "truncated"))

\* C5: an overflowing file is rejected whole, and a run that hit the cap
\* reports truncation when the clipboard write succeeds (a failed write
\* reports the failure instead)
C5_RejectedWhole ==
    /\ RejectedWhole
    /\ [](/\ OversizedAlone
          /\ (pc = "done" /\ limitReached) =>
                report = IF clipboard.written THEN "truncated" ELSE "failed")

C5_Witness ==
    /\ pc = "done" /\ limitReached /\ report = "truncated"
    /\ tree = SingleTree(6 * 1024 * 1024)
    /\ clipboard = [written |-> TRUE, text |-> <<RootUnit(cwd)>>]

YesAnswers == {<<"y">>, <<"Y">>}

\* C6: with no repository and an answer other than y or Y main ends with no
\* rules loaded, no traversal, no clipboard write and exit status 0; main
\* goes on past the prompt only with y or Y; and no traversal starts before
\* the answer is in
C6_DeclineAborts ==
    /\ pc = "cancelled" =>
          /\ ~gitRoot.found /\ answer \notin YesAnswers
          /\ ~ig.loaded /\ calls = 0 /\ stack = <<>> /\ finalOutput = <<>>
          /\ ~clipboard.written /\ report = "cancelled" /\ exitCode = 0
    /\ (pc \in {"load", "header", "walk", "write", "done"} /\ ~gitRoot.found) =>
          answer \in YesAnswers
    /\ pc \in {"isGitRepo", "prompt"} =>
          calls = 0 /\ stack = <<>> /\ currentSize = 0

C6_Witness == pc = "cancelled" /\ answer = <<"y", "e", "s">>

\* the units of every text buffer alive
AllUnits ==
    UNION {{stack[i].output[j] : j \in 1..Len(stack[i].output)} : i \in 1..Len(stack)}
    \cup {ret.text[j] : j \in 1..Len(ret.text)}
    \cup {finalOutput[j] : j \in 2..Len(finalOutput)}

HasBuildRule ==
    ig.loaded /\ \E r \in 1..Len(ig.rules) :
                    ig.rules[r] = [name |-> NBuild, dirOnly |-> TRUE]

\* some directory above rel is named build
UnderBuild(rel) == \E i \in 1..(Len(rel) - 1) : rel[i] = NBuild

\* C7: with build/ in the rule set no unit is emitted for a directory named
\* build or for a path beneath one, at any depth; no unit is emitted for a
\* path the rule set matches; and visiting an entry the rule set matches
\* changes neither currentSize nor any output buffer
C7_IgnoredContributesNothing ==
    /\ [](/\ HasBuildRule =>
                \A u \in AllUnits :
                    /\ ~UnderBuild(u.rel)
                    /\ ~(u.t = "Folder" /\ u.rel[Len(u.rel)] = NBuild)
          /\ \A u \in AllUnits : ~Ignores(ig.rules, u.rel))
    /\ [][(Visiting /\ Ignores(ig.rules, relativePath)) =>
             /\ currentSize' = currentSize
             /\ BufferedBytes' = BufferedBytes]_vars

C7_Witness ==
    /\ HasBuildRule /\ pc = "done"
    /\ <<NZ, NBuild, NM, NB>> \in DOMAIN tree
    /\ \E j \in 1..Len(finalOutput) : finalOutput[j].rel = <<NZ, NK>>

\* the first directory from dir upward, dir and the filesystem root
\* included, that holds a '.git' directory
RECURSIVE NearestGitDir(_)
NearestGitDir(dir) ==
    IF git[dir] = "dir" THEN [found |-> TRUE, dir |-> dir]
    ELSE IF dir = <<>> THEN [found |-> FALSE, dir |-> <<>>]
    ELSE NearestGitDir(Dirname(dir))

\* C10: isGitRepo returns the first directory from start upward that holds
\* a '.git' directory, and not-found only when none up to the filesystem
\* root holds one
C10_NearestGitDir ==
    pc # "isGitRepo" => gitRoot = NearestGitDir(cwd)

(***************************************************************************)
(* The walker called a second time in the same process.                    *)
(***************************************************************************)
\* processDirectory(rootDir, ig) once more, after the first call returned
WalkAgain ==
    /\ pc = "write"
    /\ calls = 1
    /\ Call(<<>>, <<>>)
    /\ calls' = 2
    /\ pc' = "again"
    /\ UNCHANGED <<env, test, current, gitRoot, answer, ig, currentSize, limitReached,
                   finalOutput, clipboard, report, exitCode, firstOutput>>

NextTwice == Next \/ WalkAgain

SpecTwice == Init /\ [][NextTwice]_vars

\* the second call has returned
SecondReturned == pc = "again" /\ ret.set /\ stack = <<>>

RunLengths == (0..MaxRun) \cup {SampleLimit}
TestBytes == {0, 7, 9, 65, 200}
Runs == [b : TestBytes, n : RunLengths]
Buffers == {<<>>} \cup {<<r>> : r \in Runs} \cup {<<r, s>> : r \in Runs, s \in Runs}
TestNames == {NA, NPng, <<".", "p", "n", "g">>, <<"a", ".", "p", "n", "g">>,
              <<"a", ".", "t", "x", "t">>, <<"a", ".">>}

InitBinary ==
    /\ cwd = <<>>
    /\ git = (<<>> :> "none")
    /\ above = <<>>
    /\ tree = SingleTree(0)
    /\ InitMain
    /\ arg \in [buffer : Buffers, name : TestNames]
    /\ result = NoResult

Classify ==
    /\ ~result.set
    /\ result' = [set |-> TRUE, binary |-> isBinaryFile(arg.buffer, arg.name)]
    /\ UNCHANGED <<env, arg, pc, current, gitRoot, answer, ig, currentSize,
                   limitReached, stack, ret, finalOutput, clipboard, report, exitCode,
                   calls, firstOutput>>

SpecBinary == InitBinary /\ [][Classify]_vars

\* the byte at position i (from 1) of a buffer
RECURSIVE ByteAt(_, _)
ByteAt(buffer, i) ==
    IF i <= Head(buffer).n THEN Head(buffer).b
    ELSE ByteAt(Tail(buffer), i - Head(buffer).n)

Sampled(buffer) == 1..(IF BufLen(buffer) < 8000 THEN BufLen(buffer) ELSE 8000)

ControlCount(buffer) ==
    Cardinality({i \in Sampled(buffer) :
                    ByteAt(buffer, i) < 32 /\ ByteAt(buffer, i) \notin {9, 10, 13}})

DeniedExtension(name) == ToLowerCase(Extname(name)) \in binaryExts

\* C8: binary exactly when the lower-cased extension is denied, or a zero
\* byte occurs anywhere, or more than 30% of the first min(length, 8000)
\* bytes are control bytes other than 9, 10 and 13; so a zero byte means
\* binary, printable ASCII under an extension outside the list (the empty
\* buffer too) means text, and '.png' means binary
C8_BinaryExactly ==
    result.set =>
        LET b == arg.buffer
            hasZero == \E i \in 1..BufLen(b) : ByteAt(b, i) = 0
            printable == \A i \in 1..BufLen(b) : ByteAt(b, i) \in 32..126
        IN  /\ result.binary <=>
                  \/ DeniedExtension(arg.name)
                  \/ hasZero
                  \/ 10 * ControlCount(b) > 3 * Cardinality(Sampled(b))
            /\ hasZero => result.binary
            /\ (printable /\ arg.name \in {NA, <<"a", ".", "t", "x", "t">>, <<"a", ".">>})
                  => ~result.binary
            /\ arg.name \in {NPng, <<"a", ".", "p", "n", "g">>} => result.binary

C8_Witness ==
    /\ result.set /\ ~result.binary
    /\ arg.name = NA
    /\ arg.buffer = <<[b |-> 65, n |-> SampleLimit], [b |-> 7, n |-> SampleLimit]>>


====
